---- MODULE Spec2Model ----
\* Model of the label-cache synchronizer (scripts/rescan_all_subjects.py) and of
\* the standalone index regeneration (scripts/generate_dandiset_assets.py).
\*
\* Strings that the code splits or compares (paths, subjects) are sequences of
\* character codes, so that str.split and Python's code-point ordering are
\* computed rather than assumed.  Python dicts are sequences in insertion order.
EXTENDS Integers, Sequences, FiniteSets, TLC

VARIABLES
    log,            \* label_cache.jsonl on disk: the parsed lines, in file order
    label_cache,    \* main's dict label_cache: <<[key, entry]>> in insertion order
    pc,             \* position of the running script
    dandiset_ids,   \* main's sorted list of dandisets to process
    ds_i,           \* index of the current dandiset in dandiset_ids
    all_assets,     \* listing returned by get_nwb_assets_paged for the current dandiset
    subj_i,         \* index of the current subject in sorted(subject_assets)
    total_new,      \* main's counter of appended entries
    index,          \* dandiset_assets.json: [written, content]
    log0,           \* history: the log as the script found it
    calls,          \* history: every process_asset call, [ds, asset, ok], in order
    listed,         \* history: every get_nwb_assets_paged call, [ds, ok, assets], in order
    prev,           \* history: the calls and listings of the run that ended before this one
    other           \* main's variables in a second process running the script, while
                    \* it is not the one taking a step

vars == <<log, label_cache, pc, dandiset_ids, ds_i, all_assets, subj_i,
          total_new, index, log0, calls, listed, prev, other>>

-----------------------------------------------------------------------------
\* Bounds of the model

MaxLog == 2         \* lines of the cache log at the start of a synchronizer run
MaxListing == 2     \* assets of one dandiset listing
MaxIndexLog == 2    \* lines of the cache log an index is built from
MaxMatches == 4     \* matches of one matched_locations mapping, all keys together
MaxBlankLog == 3    \* lines of a cache log that has blank lines
MaxRunLog == 1      \* lines of the cache log at the start of the first of two runs
MaxBadLog == 2      \* lines of a cache log that has bad lines

-----------------------------------------------------------------------------
\* Characters and strings

Slash == 47         \* "/"
Underscore == 95    \* "_"

\* "a/b", "a_a" (both of subject "a", "a/b" < "a_a") and "b" (subject "b")
Path_a_slash_b == <<97, Slash, 98>>
Path_a_under_a == <<97, Underscore, 97>>
Path_b == <<98>>
Paths == {Path_a_slash_b, Path_a_under_a, Path_b}
CachedPaths == {Path_a_slash_b, Path_b}

\* Python's str < str: code-point lexicographic, a proper prefix is smaller
StrLess(s, t) ==
    \E k \in 1..Len(t) :
        /\ k <= Len(s) + 1
        /\ \A i \in 1..(k - 1) : s[i] = t[i]
        /\ (k = Len(s) + 1 \/ s[k] < t[k])

StrLeq(s, t) == s = t \/ StrLess(s, t)

\* str.split(sep) for a one-character separator: the list of parts
RECURSIVE Split(_, _)
Split(s, sep) ==
    IF \A i \in 1..Len(s) : s[i] # sep
    THEN <<s>>
    ELSE LET k == CHOOSE i \in 1..Len(s) :
                      s[i] = sep /\ \A j \in 1..(i - 1) : s[j] # sep
         IN  <<SubSeq(s, 1, k - 1)>> \o Split(SubSeq(s, k + 1, Len(s)), sep)

extract_subject(path) ==
    LET parts == Split(path, Slash)
    IN  IF Len(parts) > 1 THEN parts[1] ELSE Split(path, Underscore)[1]

-----------------------------------------------------------------------------
\* Sorting

\* sorted(seq, key=lambda r: r["path"]): stable, ascending by path
SortedByPath(seq) ==
    LET n == Len(seq)
        Before(j, i) == \/ StrLess(seq[j].path, seq[i].path)
                        \/ (seq[j].path = seq[i].path /\ j < i)
        Rank(i) == 1 + Cardinality({j \in 1..n : Before(j, i)})
    IN  [k \in 1..n |-> seq[CHOOSE i \in 1..n : Rank(i) = k]]

\* (a variant that sorts in descending order)
SortedStrings_Descending(S) ==
    LET Rank(s) == 1 + Cardinality({t \in S : StrLess(s, t)})
    IN  [k \in 1..Cardinality(S) |-> CHOOSE s \in S : Rank(s) = k]

\* sorted(S) for a set of strings
SortedStrings(S) ==
    LET Rank(s) == 1 + Cardinality({t \in S : StrLess(t, s)})
    IN  [k \in 1..Cardinality(S) |-> CHOOSE s \in S : Rank(s) = k]

\* sorted(S) for a set of integers
SortedInts(S) ==
    LET Rank(s) == 1 + Cardinality({t \in S : t < s})
    IN  [k \in 1..Cardinality(S) |-> CHOOSE s \in S : Rank(s) = k]

Range(seq) == {seq[i] : i \in 1..Len(seq)}

-----------------------------------------------------------------------------
\* Data

DandisetIds == {1, 2}
\* asset ids: "x" is cached and listed, "y" is only listed, "z" is only cached
\* (an asset that has left the dandiset since it was labeled)
CachedIds == {"x", "z"}
ListedIds == {"x", "y"}
Statuses == {"ok", "error"}

FILTER_IDS == {997, 8}

\* Region-match records as the labeling routine stores them; "term" stands for
\* whatever fields a match carries beyond id, acronym and name.
Match(i, a, n, t) == [id |-> i, acronym |-> a, name |-> n, term |-> t]
M_grey == Match(8, "grey", "Basic cell groups and regions", "t1")
M_root == Match(997, "root", "root", "t2")
M_CTX == Match(315, "CTX", "Cortex", "t3")
M_CTX_again == Match(315, "Isocortex", "Isocortex", "t4")
M_CB == Match(512, "CB", "Cerebellum", "t5")
Matches == {M_grey, M_root, M_CTX, M_CTX_again, M_CB}

SeqsUpTo(S, n) == UNION {[1..k -> S] : k \in 0..n}

\* matched_locations: the lists of matches, in the mapping's iteration order;
\* here every mapping of at most two location keys
AllMatchedLocations ==
    {<< >>} \cup
    UNION {{<<flat>>} \cup
           {<<SubSeq(flat, 1, k), SubSeq(flat, k + 1, Len(flat))>> : k \in 0..Len(flat)} :
           flat \in SeqsUpTo(Matches, MaxMatches)}

\* the two mappings used where whole logs are enumerated: none, and the one of
\* the region dedup/filter example
ML_none == << >>
ML_example == << <<M_grey, M_CTX>>, <<M_CTX_again, M_CB>> >>
SomeMatchedLocations == {ML_none, ML_example}

Entry(d, a, p, st, ml) ==
    [dandiset_id |-> d, asset_id |-> a, path |-> p, status |-> st,
     matched_locations |-> ml]

Asset(a, p) == [asset_id |-> a, path |-> p]

\* Lines of the log.  A line that holds a JSON object is the record of that
\* object's fields, so an object that lacks a field is a record without it; a
\* line of white space only and a line that is not JSON are records of their
\* own.
BlankLine == [blank |-> TRUE]
UnparseableLine == [unparseable |-> TRUE]

\* not line.strip()
IsBlank(line) == "blank" \in DOMAIN line

\* json.loads(line) raises: on a line that is not JSON, and on a blank line
\* when the reader has not skipped it
JsonFails(line) == "unparseable" \in DOMAIN line \/ IsBlank(line)

\* entry[field] raises KeyError
Lacks(entry, field) == field \notin DOMAIN entry

\* entry.get("matched_locations", {})
MatchedLocations(entry) ==
    IF Lacks(entry, "matched_locations") THEN << >> ELSE entry.matched_locations

-----------------------------------------------------------------------------
\* CacheStore

\* cache[key] = entry on a dict kept as <<[key, entry]>> in insertion order:
\* an existing key keeps its position and takes the new value
DictPut(cache, key, entry) ==
    IF \E i \in 1..Len(cache) : cache[i].key = key
    THEN [i \in 1..Len(cache) |->
             IF cache[i].key = key THEN [key |-> key, entry |-> entry]
                                   ELSE cache[i]]
    ELSE Append(cache, [key |-> key, entry |-> entry])

HasKey(cache, key) == \E i \in 1..Len(cache) : cache[i].key = key

EntryKey(entry) == <<entry.dandiset_id, entry.asset_id>>

\* the loop of load_label_cache: blank lines are skipped, every other line is
\* parsed and stored under its key
RECURSIVE LoadLines(_, _)
LoadLines(lines, cache) ==
    IF lines = << >> THEN cache
    ELSE IF IsBlank(Head(lines)) THEN LoadLines(Tail(lines), cache)
    ELSE LET entry == Head(lines)
         IN  LoadLines(Tail(lines), DictPut(cache, EntryKey(entry), entry))

load_label_cache(lines) == LoadLines(lines, << >>)

\* load_label_cache raises: a non-blank line is not JSON (line 44), or its
\* object has no dandiset_id or no asset_id (line 45)
LoadFails(lines) ==
    \E i \in 1..Len(lines) :
        /\ ~IsBlank(lines[i])
        /\ \/ JsonFails(lines[i])
           \/ Lacks(lines[i], "dandiset_id")
           \/ Lacks(lines[i], "asset_id")

\* (a variant that opens the log for writing instead of appending)
append_label_cache_Truncating(lines, entry) == <<entry>>

append_label_cache(lines, entry) == Append(lines, entry)

-----------------------------------------------------------------------------
\* Regions of an index record

Region(m) == [id |-> m.id, acronym |-> m.acronym, name |-> m.name]

\* for loc_key, matches in matched.items(): for m in matches
RECURSIVE Flatten(_)
Flatten(ml) == IF ml = << >> THEN << >> ELSE Head(ml) \o Flatten(Tail(ml))

\* rescan_all_subjects: filter and deduplicate in one pass
RECURSIVE RescanScan(_, _, _)
RescanScan(flat, seen, regions) ==
    IF flat = << >> THEN regions
    ELSE LET m == Head(flat)
         IN  IF m.id \notin FILTER_IDS /\ m.id \notin seen
             THEN RescanScan(Tail(flat), seen \cup {m.id}, Append(regions, Region(m)))
             ELSE RescanScan(Tail(flat), seen, regions)

RescanRegions(ml) == RescanScan(Flatten(ml), {}, << >>)

\* generate_dandiset_assets: filter first, then deduplicate by id
RECURSIVE DedupById(_, _, _)
DedupById(regions, seen, unique_regions) ==
    IF regions = << >> THEN unique_regions
    ELSE LET r == Head(regions)
         IN  IF r.id \notin seen
             THEN DedupById(Tail(regions), seen \cup {r.id}, Append(unique_regions, r))
             ELSE DedupById(Tail(regions), seen, unique_regions)

\* (a variant that keeps every match, the excluded ids included)
FilteredRegions_Unfiltered(ml) ==
    LET flat == Flatten(ml)
    IN  [k \in 1..Len(flat) |-> Region(flat[k])]

FilteredRegions(ml) ==
    LET flat == Flatten(ml)
        kept == SelectSeq(flat, LAMBDA m : m.id \notin FILTER_IDS)
    IN  [k \in 1..Len(kept) |-> Region(kept[k])]

\* (a variant that forgets the deduplication pass)
GenerateRegions_NoDedup(ml) == FilteredRegions(ml)

GenerateRegions(ml) == DedupById(FilteredRegions(ml), {}, << >>)

-----------------------------------------------------------------------------
\* SubjectIndexBuilder, as the synchronizer runs it over its in-memory table

\* dandisets[ds_id][subj], the entries in the table's iteration order
RescanGroup(cache, did, subj) ==
    LET members == SelectSeq(cache, LAMBDA kv :
                       kv.key[1] = did /\ extract_subject(kv.entry.path) = subj)
    IN  [k \in 1..Len(members) |-> members[k].entry]

RescanDandisets(cache) == {cache[i].key[1] : i \in 1..Len(cache)}

\* (a variant that forgets the underscore rule: a path without "/" gives no subject)
RescanSubjects_SlashOnly(cache, did) ==
    {Split(cache[i].entry.path, Slash)[1] :
        i \in {j \in 1..Len(cache) :
                   cache[j].key[1] = did /\ Len(Split(cache[j].entry.path, Slash)) > 1}}

RescanSubjects(cache, did) ==
    {extract_subject(cache[i].entry.path) :
        i \in {j \in 1..Len(cache) : cache[j].key[1] = did}}

\* (a variant that takes the last entry by path instead of the first)
RescanRecord_LastByPath(cache, did, subj) ==
    LET entries == SortedByPath(RescanGroup(cache, did, subj))
        e == entries[Len(entries)]
    IN  [path |-> e.path, asset_id |-> e.asset_id,
         regions |-> RescanRegions(MatchedLocations(e))]

RescanRecord(cache, did, subj) ==
    LET entries == SortedByPath(RescanGroup(cache, did, subj))
        e == entries[1]
    IN  [path |-> e.path, asset_id |-> e.asset_id,
         regions |-> RescanRegions(MatchedLocations(e))]

\* the grouping loop raises: an entry of the table has no path (line 123)
BuildFails(cache) == \E i \in 1..Len(cache) : Lacks(cache[i].entry, "path")

BuildIndex(cache) ==
    LET dids == SortedInts(RescanDandisets(cache))
    IN  [k \in 1..Len(dids) |->
            LET did == dids[k]
                subjects == SortedStrings(RescanSubjects(cache, did))
            IN  [dandiset_id |-> did,
                 assets |-> [j \in 1..Len(subjects) |->
                                RescanRecord(cache, did, subjects[j])]]]

-----------------------------------------------------------------------------
\* SubjectIndexBuilder, as the standalone regeneration runs it over the log

\* the record appended to dandisets[did][subject] for one line
GenerateLineRecord(entry) ==
    [path |-> entry.path, asset_id |-> entry.asset_id,
     regions |-> GenerateRegions(MatchedLocations(entry))]

GenerateGroup(lines, did, subj) ==
    LET members == SelectSeq(lines, LAMBDA entry :
                       entry.dandiset_id = did /\ extract_subject(entry.path) = subj)
    IN  [k \in 1..Len(members) |-> GenerateLineRecord(members[k])]

GenerateDandisets(lines) == {lines[i].dandiset_id : i \in 1..Len(lines)}

GenerateSubjects(lines, did) ==
    {extract_subject(lines[i].path) :
        i \in {j \in 1..Len(lines) : lines[j].dandiset_id = did}}

\* the reading loop raises: a line, blank ones included, is not JSON (line 32),
\* or its object has no dandiset_id, asset_id or path (lines 33-35)
GenerateFails(lines) ==
    \E i \in 1..Len(lines) :
        \/ JsonFails(lines[i])
        \/ Lacks(lines[i], "dandiset_id")
        \/ Lacks(lines[i], "asset_id")
        \/ Lacks(lines[i], "path")

GenerateIndex(lines) ==
    LET dids == SortedInts(GenerateDandisets(lines))
    IN  [k \in 1..Len(dids) |->
            LET did == dids[k]
                subjects == SortedStrings(GenerateSubjects(lines, did))
            IN  [dandiset_id |-> did,
                 assets |-> [j \in 1..Len(subjects) |->
                                SortedByPath(GenerateGroup(lines, did, subjects[j]))[1]]]]

-----------------------------------------------------------------------------
\* The collaborators of the synchronizer (label_anatomy, outside this repository)

\* process_asset(ds_id, asset, lookups, apply=False): on success, the labeling
\* result of that asset: a cache entry carrying the dandiset, the asset's id and
\* path, and a status and matched_locations that the routine computes
process_asset(ds_id, asset, st, ml) ==
    Entry(ds_id, asset.asset_id, asset.path, st, ml)

\* get_nwb_assets_paged(ds_id, max_assets=None): any listing of assets, each
\* asset_id listed once
Assets == {Asset(a, p) : a \in ListedIds, p \in Paths}

Listings ==
    {l \in SeqsUpTo(Assets, MaxListing) :
        \A i, j \in 1..Len(l) : l[i].asset_id = l[j].asset_id => i = j}

-----------------------------------------------------------------------------
\* The synchronizer: rescan_all_subjects.main

\* subject_assets[subj]: the listing's assets of a subject, in listing order
SubjectAssets(assets, subj) ==
    SelectSeq(assets, LAMBDA a : extract_subject(a.path) = subj)

\* sorted(subject_assets)
SortedSubjects(assets) ==
    SortedStrings({extract_subject(assets[i].path) : i \in 1..Len(assets)})

\* the loop "for asset in assets: if (ds_id, asset_id) in label_cache"
have_cached(cache, ds_id, assets) ==
    \E i \in 1..Len(assets) : HasKey(cache, <<ds_id, assets[i].asset_id>>)

ds_id == dandiset_ids[ds_i]
subj == SortedSubjects(all_assets)[subj_i]
assets == SortedByPath(SubjectAssets(all_assets, subj))

NoIndex == [written |-> FALSE, content |-> << >>]

\* no run has ended before this one
NoPrev == [started |-> FALSE, calls |-> << >>, listed |-> << >>]

\* main's variables in a process that has not run its first statement
NotStarted ==
    [pc |-> "start", label_cache |-> << >>, dandiset_ids |-> << >>, ds_i |-> 1,
     all_assets |-> << >>, subj_i |-> 1, total_new |-> 0]

\* (a variant that processes every dandiset there is, known to the cache or not)
Load_EveryDandiset ==
    /\ pc = "start"
    /\ label_cache' = load_label_cache(log)
    /\ dandiset_ids' = SortedInts(DandisetIds)
    /\ ds_i' = 1
    /\ pc' = "dandiset"
    /\ UNCHANGED <<prev, other, log, all_assets, subj_i, total_new, index, log0, calls, listed>>

\* lines 57-69: load the cache, take the dandisets it knows
\* (load raises on a bad line: nothing in main catches it, the script ends there)
Load ==
    /\ pc = "start"
    /\ IF LoadFails(log)
       THEN /\ pc' = "crashed"
            /\ UNCHANGED <<label_cache, dandiset_ids, ds_i>>
       ELSE /\ label_cache' = load_label_cache(log)
            /\ dandiset_ids' =
                   SortedInts({label_cache'[i].key[1] : i \in 1..Len(label_cache')})
            /\ ds_i' = 1
            /\ pc' = "dandiset"
    /\ UNCHANGED <<prev, other, log, all_assets, subj_i, total_new, index, log0, calls, listed>>

\* lines 71-84: the next dandiset is listed and its assets grouped by subject
ListAssets ==
    /\ pc = "dandiset"
    /\ ds_i <= Len(dandiset_ids)
    /\ \E listing \in Listings :
        /\ all_assets' = listing
        /\ listed' = Append(listed, [ds |-> ds_id, ok |-> TRUE, assets |-> listing])
        /\ subj_i' = 1
        /\ IF listing = << >>
           THEN pc' = "dandiset" /\ ds_i' = ds_i + 1
           ELSE pc' = "subject" /\ ds_i' = ds_i
    /\ UNCHANGED <<prev, other, log, label_cache, dandiset_ids, total_new, index, log0, calls>>

\* (a variant that would isolate the failure: report it, go on to the next dandiset)
ListAssetsFails_Isolated ==
    /\ pc = "dandiset"
    /\ ds_i <= Len(dandiset_ids)
    /\ pc' = "dandiset"
    /\ ds_i' = ds_i + 1
    /\ listed' = Append(listed, [ds |-> ds_id, ok |-> FALSE, assets |-> << >>])
    /\ UNCHANGED <<prev, other, log, label_cache, dandiset_ids, all_assets, subj_i,
                   total_new, index, log0, calls>>

\* line 75 raises: nothing in main catches it, the script ends there
ListAssetsFails ==
    /\ pc = "dandiset"
    /\ ds_i <= Len(dandiset_ids)
    /\ pc' = "crashed"
    /\ listed' = Append(listed, [ds |-> ds_id, ok |-> FALSE, assets |-> << >>])
    /\ UNCHANGED <<prev, other, log, label_cache, dandiset_ids, ds_i, all_assets, subj_i,
                   total_new, index, log0, calls>>

\* the for loops' step to the next subject, or to the next dandiset
NextSubject ==
    IF subj_i < Len(SortedSubjects(all_assets))
    THEN subj_i' = subj_i + 1 /\ pc' = "subject" /\ ds_i' = ds_i
    ELSE subj_i' = 1 /\ pc' = "dandiset" /\ ds_i' = ds_i + 1

\* lines 87-99: a listed asset of the subject is in the table
SkipCached ==
    /\ pc = "subject"
    /\ have_cached(label_cache, ds_id, assets)
    /\ NextSubject
    /\ UNCHANGED <<prev, other, log, label_cache, dandiset_ids, all_assets, total_new,
                   index, log0, calls, listed>>

\* (a variant that appends the result to the log and forgets the table)
LabelOk_NoStore ==
    /\ pc = "subject"
    /\ ~have_cached(label_cache, ds_id, assets)
    /\ \E st \in {"ok"}, ml \in {ML_none} :
        LET asset == assets[1]
            result == process_asset(ds_id, asset, st, ml)
        IN  /\ log' = append_label_cache(log, result)
            /\ calls' = Append(calls, [ds |-> ds_id, asset |-> asset, ok |-> TRUE])
    /\ total_new' = total_new + 1
    /\ NextSubject
    /\ UNCHANGED <<prev, other, label_cache, dandiset_ids, all_assets, index, log0, listed>>

\* lines 101-111: the subject's first asset by path is labeled and stored
LabelOk ==
    /\ pc = "subject"
    /\ ~have_cached(label_cache, ds_id, assets)
    /\ \E st \in {"ok"}, ml \in {ML_none} :
        LET asset == assets[1]
            result == process_asset(ds_id, asset, st, ml)
        IN  /\ log' = append_label_cache(log, result)
            /\ label_cache' = DictPut(label_cache, <<ds_id, asset.asset_id>>, result)
            /\ calls' = Append(calls, [ds |-> ds_id, asset |-> asset, ok |-> TRUE])
    /\ total_new' = total_new + 1
    /\ NextSubject
    /\ UNCHANGED <<prev, other, dandiset_ids, all_assets, index, log0, listed>>

\* lines 104-113: process_asset raises, the except clause reports it
LabelFails ==
    /\ pc = "subject"
    /\ ~have_cached(label_cache, ds_id, assets)
    /\ calls' = Append(calls, [ds |-> ds_id, asset |-> assets[1], ok |-> FALSE])
    /\ NextSubject
    /\ UNCHANGED <<prev, other, log, label_cache, dandiset_ids, all_assets, total_new,
                   index, log0, listed>>

\* (a variant that reads the log again and builds the index from what it holds)
Build_FromLog ==
    /\ pc = "dandiset"
    /\ ds_i > Len(dandiset_ids)
    /\ index' = [written |-> TRUE, content |-> BuildIndex(load_label_cache(log))]
    /\ pc' = "done"
    /\ UNCHANGED <<prev, other, log, label_cache, dandiset_ids, ds_i, all_assets, subj_i,
                   total_new, log0, calls, listed>>

\* lines 115-155: the index is rebuilt from the table and written
\* (the grouping loop raises on an entry without path, before the file is opened)
Build ==
    /\ pc = "dandiset"
    /\ ds_i > Len(dandiset_ids)
    /\ IF BuildFails(label_cache)
       THEN pc' = "crashed" /\ index' = index
       ELSE /\ index' = [written |-> TRUE, content |-> BuildIndex(label_cache)]
            /\ pc' = "done"
    /\ UNCHANGED <<prev, other, log, label_cache, dandiset_ids, ds_i, all_assets, subj_i,
                   total_new, log0, calls, listed>>

\* the cache log a run may find
RunEntries ==
    {Entry(d, a, p, st, ml) :
        d \in DandisetIds, a \in CachedIds, p \in CachedPaths, st \in Statuses,
        ml \in {ML_example}}

Init ==
    /\ log \in SeqsUpTo(RunEntries, MaxLog)
    /\ label_cache = << >>
    /\ pc = "start"
    /\ dandiset_ids = << >>
    /\ ds_i = 1
    /\ all_assets = << >>
    /\ subj_i = 1
    /\ total_new = 0
    /\ index = NoIndex
    /\ log0 = log
    /\ calls = << >>
    /\ listed = << >>
    /\ prev = NoPrev
    /\ other = NotStarted

Next ==
    \/ Load
    \/ ListAssets
    \/ ListAssetsFails
    \/ SkipCached
    \/ LabelOk
    \/ LabelFails
    \/ Build

Spec == Init /\ [][Next]_vars

-----------------------------------------------------------------------------
\* Two runs of the synchronizer, one after the other, on the same files

\* the script is started again after a run has ended: main's variables are
\* fresh, the log and the index file are what the first run left
StartNextRun ==
    /\ pc \in {"done", "crashed"}
    /\ ~prev.started
    /\ prev' = [started |-> TRUE, calls |-> calls, listed |-> listed]
    /\ pc' = "start"
    /\ label_cache' = << >>
    /\ dandiset_ids' = << >>
    /\ ds_i' = 1
    /\ all_assets' = << >>
    /\ subj_i' = 1
    /\ total_new' = 0
    /\ log0' = log
    /\ calls' = << >>
    /\ listed' = << >>
    /\ UNCHANGED <<log, index, other>>

NextTwoRuns ==
    \/ Load
    \/ ListAssets
    \/ ListAssetsFails
    \/ SkipCached
    \/ LabelOk
    \/ LabelFails
    \/ Build
    \/ StartNextRun

\* the cache log the first run may find: entries of one dandiset
TwoRunsEntries ==
    {Entry(1, a, p, "ok", ML_none) : a \in CachedIds, p \in CachedPaths}

InitTwoRuns ==
    /\ log \in SeqsUpTo(TwoRunsEntries, MaxRunLog)
    /\ label_cache = << >>
    /\ pc = "start"
    /\ dandiset_ids = << >>
    /\ ds_i = 1
    /\ all_assets = << >>
    /\ subj_i = 1
    /\ total_new = 0
    /\ index = NoIndex
    /\ log0 = log
    /\ calls = << >>
    /\ listed = << >>
    /\ prev = NoPrev
    /\ other = NotStarted

SpecTwoRuns == InitTwoRuns /\ [][NextTwoRuns]_vars

-----------------------------------------------------------------------------
\* A run of the synchronizer on a log that has bad lines

\* JSON objects that lack one of the five fields of a cache entry
NoDandisetIdLine ==
    [asset_id |-> "z", path |-> Path_b, status |-> "ok", matched_locations |-> ML_none]
NoAssetIdLine ==
    [dandiset_id |-> 1, path |-> Path_b, status |-> "ok", matched_locations |-> ML_none]
NoPathLine ==
    [dandiset_id |-> 1, asset_id |-> "z", status |-> "ok", matched_locations |-> ML_none]
NoStatusLine ==
    [dandiset_id |-> 1, asset_id |-> "z", path |-> Path_b, matched_locations |-> ML_none]
NoMatchedLocationsLine ==
    [dandiset_id |-> 1, asset_id |-> "z", path |-> Path_b, status |-> "ok"]

BadLogLines ==
    {Entry(1, "x", Path_b, "ok", ML_none), BlankLine, UnparseableLine,
     NoDandisetIdLine, NoAssetIdLine, NoPathLine, NoStatusLine, NoMatchedLocationsLine}

InitBadLog ==
    /\ log \in SeqsUpTo(BadLogLines, MaxBadLog)
    /\ label_cache = << >>
    /\ pc = "start"
    /\ dandiset_ids = << >>
    /\ ds_i = 1
    /\ all_assets = << >>
    /\ subj_i = 1
    /\ total_new = 0
    /\ index = NoIndex
    /\ log0 = log
    /\ calls = << >>
    /\ listed = << >>
    /\ prev = NoPrev
    /\ other = NotStarted

SpecBadLog == InitBadLog /\ [][Next]_vars

-----------------------------------------------------------------------------
\* Two runs of the synchronizer at the same time, on the same files

\* main's variables in the process that takes the steps
Locals ==
    [pc |-> pc, label_cache |-> label_cache, dandiset_ids |-> dandiset_ids,
     ds_i |-> ds_i, all_assets |-> all_assets, subj_i |-> subj_i,
     total_new |-> total_new]

\* the scheduler lets the other process take the next steps; the files (log,
\* index) are shared, main's variables are each process's own
Switch ==
    /\ other' = Locals
    /\ pc' = other.pc
    /\ label_cache' = other.label_cache
    /\ dandiset_ids' = other.dandiset_ids
    /\ ds_i' = other.ds_i
    /\ all_assets' = other.all_assets
    /\ subj_i' = other.subj_i
    /\ total_new' = other.total_new
    /\ UNCHANGED <<log, index, log0, calls, listed, prev>>

NextConcurrent ==
    \/ Load
    \/ ListAssets
    \/ ListAssetsFails
    \/ SkipCached
    \/ LabelOk
    \/ LabelFails
    \/ Build
    \/ Switch

\* the cache log the two runs may find: at most one entry, of an asset that
\* is no longer listed
ConcurrentEntries ==
    {Entry(1, "z", p, "ok", ML_none) : p \in {Path_a_under_a, Path_b}}

InitConcurrent ==
    /\ log \in SeqsUpTo(ConcurrentEntries, MaxRunLog)
    /\ label_cache = << >>
    /\ pc = "start"
    /\ dandiset_ids = << >>
    /\ ds_i = 1
    /\ all_assets = << >>
    /\ subj_i = 1
    /\ total_new = 0
    /\ index = NoIndex
    /\ log0 = log
    /\ calls = << >>
    /\ listed = << >>
    /\ prev = NoPrev
    /\ other = NotStarted

SpecConcurrent == InitConcurrent /\ [][NextConcurrent]_vars

-----------------------------------------------------------------------------
\* The index built from a given log, by either script

\* generate_dandiset_assets.main
\* (the reading loop raises on a bad line, before the file is opened)
GenerateMain ==
    /\ pc = "idle"
    /\ IF GenerateFails(log)
       THEN pc' = "crashed" /\ index' = index
       ELSE /\ index' = [written |-> TRUE, content |-> GenerateIndex(log)]
            /\ pc' = "generated"
    /\ UNCHANGED <<prev, other, log, label_cache, dandiset_ids, ds_i, all_assets, subj_i,
                   total_new, log0, calls, listed>>

\* rescan_all_subjects.main when nothing is added between its load and its
\* rebuild (no listed subject is missing): lines 57 and 119-155
RebuildMain ==
    /\ pc = "idle"
    /\ IF LoadFails(log)
       THEN pc' = "crashed" /\ UNCHANGED <<label_cache, index>>
       ELSE /\ label_cache' = load_label_cache(log)
            /\ IF BuildFails(label_cache')
               THEN pc' = "crashed" /\ index' = index
               ELSE /\ index' = [written |-> TRUE, content |-> BuildIndex(label_cache')]
                    /\ pc' = "rebuilt"
    /\ UNCHANGED <<prev, other, log, dandiset_ids, ds_i, all_assets, subj_i, total_new,
                   log0, calls, listed>>

NextIndex == GenerateMain \/ RebuildMain

InitBuilder ==
    /\ label_cache = << >>
    /\ pc = "idle"
    /\ dandiset_ids = << >>
    /\ ds_i = 1
    /\ all_assets = << >>
    /\ subj_i = 1
    /\ total_new = 0
    /\ index = NoIndex
    /\ log0 = log
    /\ calls = << >>
    /\ listed = << >>
    /\ prev = NoPrev
    /\ other = NotStarted

\* logs of a few lines, with repeated keys, shared subjects and equal paths
IndexEntries ==
    {Entry(d, a, p, "ok", ml) :
        d \in DandisetIds, a \in CachedIds, p \in Paths, ml \in SomeMatchedLocations}

InitIndex ==
    /\ log \in SeqsUpTo(IndexEntries, MaxIndexLog)
    /\ InitBuilder

SpecIndex == InitIndex /\ [][NextIndex]_vars

\* logs of one line, with every matched_locations mapping
InitRegions ==
    /\ log \in {<<Entry(1, "x", Path_a_slash_b, "ok", ml)>> : ml \in AllMatchedLocations}
    /\ InitBuilder

SpecRegions == InitRegions /\ [][NextIndex]_vars

\* logs of a few lines, some of them blank
BlankLogLines ==
    {Entry(1, a, p, "ok", ML_none) : a \in CachedIds, p \in CachedPaths} \cup {BlankLine}

InitBlank ==
    /\ log \in SeqsUpTo(BlankLogLines, MaxBlankLog)
    /\ InitBuilder

SpecBlank == InitBlank /\ [][NextIndex]_vars

-----------------------------------------------------------------------------
\* Notions the claims share

\* the cache holds an entry of dandiset did whose path derives to subject s
SubjectInCache(cache, did, s) ==
    \E k \in 1..Len(cache) :
        cache[k].key[1] = did /\ extract_subject(cache[k].entry.path) = s

\* the records of an index under dandiset did
IndexAssets(content, did) ==
    IF \E k \in 1..Len(content) : content[k].dandiset_id = did
    THEN content[CHOOSE k \in 1..Len(content) : content[k].dandiset_id = did].assets
    ELSE << >>

\* the index has a record of dandiset did whose path derives to subject s
SubjectInIndex(content, did, s) ==
    \E j \in 1..Len(IndexAssets(content, did)) :
        extract_subject(IndexAssets(content, did)[j].path) = s

ListingSubjects(listing) == {extract_subject(listing[i].path) : i \in 1..Len(listing)}

\* the process_asset calls made for subject s of dandiset did
CallsFor(did, s) ==
    {i \in 1..Len(calls) :
        calls[i].ds = did /\ extract_subject(calls[i].asset.path) = s}

\* the listed asset of subject s with the smallest path
IsSmallestOfSubject(listing, s, asset) ==
    /\ asset \in Range(listing)
    /\ extract_subject(asset.path) = s
    /\ \A i \in 1..Len(listing) :
           extract_subject(listing[i].path) = s => StrLeq(asset.path, listing[i].path)

-----------------------------------------------------------------------------
\* C1.  At a subject of the listing for which the cache holds any entry of the
\* dandiset whose path derives to that subject, the synchronizer skips: no
\* labeling call, successful or failing, can be made for it.
C1_CachedSubjectIsSkipped ==
    (pc = "subject" /\ SubjectInCache(label_cache, ds_id, subj))
        => ~ENABLED (LabelOk \/ LabelFails)

\* C2.  When a run has finished, every listed subject that was not already
\* cached (no entry of the dandiset derived to it when the run loaded the
\* cache) has had exactly one labeling call, on its smallest-path asset; every
\* already-cached subject has had none; and no call was made on anything else.
C2_ExactlyOneCallPerMissingSubject ==
    pc = "done" =>
        /\ \A n \in 1..Len(listed) : \A s \in ListingSubjects(listed[n].assets) :
               IF SubjectInCache(load_label_cache(log0), listed[n].ds, s)
               THEN CallsFor(listed[n].ds, s) = {}
               ELSE /\ Cardinality(CallsFor(listed[n].ds, s)) = 1
                    /\ \A i \in CallsFor(listed[n].ds, s) :
                           IsSmallestOfSubject(listed[n].assets, s, calls[i].asset)
        /\ \A i \in 1..Len(calls) : \E n \in 1..Len(listed) :
               /\ listed[n].ds = calls[i].ds
               /\ calls[i].asset \in Range(listed[n].assets)

\* C3, first part.  A failed labeling call appends nothing and stores nothing:
\* the log is the initial log followed by one line per successful call, and the
\* table is the loaded table followed by one entry per successful call.
C3_FailedCallsAddNothing ==
    LET ok_calls == SelectSeq(calls, LAMBDA c : c.ok)
        loaded == load_label_cache(log0)
    IN  /\ Len(log) = Len(log0) + Len(ok_calls)
        /\ SubSeq(log, 1, Len(log0)) = log0
        /\ pc # "start" => /\ Len(label_cache) = Len(loaded) + Len(ok_calls)
                           /\ SubSeq(label_cache, 1, Len(loaded)) = loaded

\* C3, second part.  The index written by a finished run has no record for a
\* subject whose labeling failed.
C3_FailedSubjectNotInIndex ==
    pc = "done" =>
        \A i \in 1..Len(calls) :
            ~calls[i].ok =>
                ~SubjectInIndex(index.content, calls[i].ds,
                                extract_subject(calls[i].asset.path))

\* C3, whole.  A failed labeling call adds nothing to the log or the table and
\* leaves the loaded entries alone, and the index written at the end of the run
\* has no record for the subject whose labeling failed.
C3_LabelingFailureIsIsolated ==
    /\ C3_FailedCallsAddNothing
    /\ C3_FailedSubjectNotInIndex

\* the script has returned, or has ended on an uncaught exception
RunEnded == pc \in {"done", "crashed"}

\* C4, as claimed.  A listing failure costs only its own dandiset: a run that
\* has ended has listed (or failed to list) every dandiset it knows and has
\* written the index.
C4_ListingFailureIsIsolated ==
    RunEnded =>
        /\ index.written
        /\ \A k \in 1..Len(dandiset_ids) :
               \E n \in 1..Len(listed) : listed[n].ds = dandiset_ids[k]

\* C4, amended.  A listing failure ends the whole run where it happens: it is
\* the last listing call, the run can take no further step, the index is not
\* written, every labeling call made so far was for a dandiset listed earlier,
\* and the lines those calls appended stay in the log.
C4_ListingFailureEndsRun ==
    \A n \in 1..Len(listed) :
        ~listed[n].ok =>
            /\ n = Len(listed)
            /\ ~ENABLED Next
            /\ ~index.written
            /\ \A i \in 1..Len(calls) :
                   \E m \in 1..(n - 1) : listed[m].ok /\ listed[m].ds = calls[i].ds
            /\ Len(log) = Len(log0) + Len(SelectSeq(calls, LAMBDA c : c.ok))
            /\ \E k \in 1..Len(dandiset_ids) :
                   /\ dandiset_ids[k] = listed[n].ds
                   /\ \A j \in k..Len(dandiset_ids) :
                          \A m \in 1..(n - 1) : listed[m].ds # dandiset_ids[j]

\* the lister fails for the second of two dandisets, after an entry was
\* appended for the first
C4_Witness ==
    /\ pc = "crashed"
    /\ Len(dandiset_ids) = 2
    /\ Len(listed) = 2
    /\ ~listed[2].ok
    /\ \E i \in 1..Len(calls) : calls[i].ok
    /\ Len(log) > Len(log0)

\* C5.  After a run in which no listing call and no labeling call failed, every
\* dandiset of the loaded cache was listed, and for every subject of its
\* listing the cache holds an entry of the dandiset whose path derives to that
\* subject and the written index has a record for that subject.
C5_EveryListedSubjectCovered ==
    (pc = "done" /\ \A i \in 1..Len(calls) : calls[i].ok) =>
        /\ \A k \in 1..Len(load_label_cache(log0)) :
               \E n \in 1..Len(listed) :
                   listed[n].ok /\ listed[n].ds = load_label_cache(log0)[k].key[1]
        /\ \A n \in 1..Len(listed) : \A s \in ListingSubjects(listed[n].assets) :
               /\ SubjectInCache(label_cache, listed[n].ds, s)
               /\ SubjectInIndex(index.content, listed[n].ds, s)

-----------------------------------------------------------------------------
\* Claims about the index built from a log

Built == pc \in {"rebuilt", "generated"}

\* the entries the builder grouped: the table's entries in the synchronizer,
\* the log's lines in the standalone regeneration
Snapshot ==
    IF pc = "rebuilt" THEN [k \in 1..Len(label_cache) |-> label_cache[k].entry]
    ELSE log

SnapshotGroup(did, s) ==
    {e \in Range(Snapshot) : e.dandiset_id = did /\ extract_subject(e.path) = s}

RecordsOf(did, s) ==
    {j \in 1..Len(IndexAssets(index.content, did)) :
        extract_subject(IndexAssets(index.content, did)[j].path) = s}

IsLastForKey(i) ==
    \A j \in (i + 1)..Len(log) : EntryKey(log[j]) # EntryKey(log[i])

RegionIds(regions) == {regions[k].id : k \in 1..Len(regions)}

MatchedIds(ml) == {Flatten(ml)[k].id : k \in 1..Len(Flatten(ml))}

\* C8, first part.  Loading a log that repeats a key gives a table with one
\* entry for each key, equal to the last line with that key.
C8_LoadKeepsLastLine ==
    pc = "rebuilt" =>
        /\ \A i \in 1..Len(log) :
               IsLastForKey(i) =>
                   \E k \in 1..Len(label_cache) :
                       label_cache[k] = [key |-> EntryKey(log[i]), entry |-> log[i]]
        /\ \A k, l \in 1..Len(label_cache) :
               label_cache[k].key = label_cache[l].key => k = l
        /\ Len(label_cache) = Cardinality({EntryKey(log[i]) : i \in 1..Len(log)})

\* C8, second part.  Every record of the index built from that log, by either
\* script, comes from a line that is the last one with its key.
C8_IndexUsesLastLine ==
    Built =>
        \A k \in 1..Len(index.content) : \A j \in 1..Len(index.content[k].assets) :
            LET r == index.content[k].assets[j]
            IN  \E i \in 1..Len(log) :
                    /\ IsLastForKey(i)
                    /\ log[i].dandiset_id = index.content[k].dandiset_id
                    /\ log[i].path = r.path
                    /\ log[i].asset_id = r.asset_id
                    /\ RegionIds(r.regions) = MatchedIds(log[i].matched_locations) \ FILTER_IDS

\* C8, whole.  The last line of a repeated key wins, in the loaded table and in
\* the index built from the log.
C8_LastLineWins ==
    /\ C8_LoadKeepsLastLine
    /\ C8_IndexUsesLastLine

\* C9.  The standalone regeneration writes the index that the synchronizer's
\* load and rebuild produce from the same log.
C9_GenerateEqualsRebuild ==
    pc = "generated" => index.content = BuildIndex(load_label_cache(log))

\* C10.  The regions of the record of a canonical entry have no duplicate id,
\* contain every non-excluded id of its matched_locations, and list their ids
\* in the order of first occurrence in matched_locations (keys in iteration
\* order, matches in list order).
FirstPosition(flat, id) ==
    CHOOSE k \in 1..Len(flat) : flat[k].id = id /\ \A j \in 1..(k - 1) : flat[j].id # id

C10_RegionsDedupedInFirstSeenOrder ==
    Built =>
        LET flat == Flatten(log[1].matched_locations)
            regions == index.content[1].assets[1].regions
        IN  /\ \A i, j \in 1..Len(regions) : regions[i].id = regions[j].id => i = j
            /\ MatchedIds(log[1].matched_locations) \ FILTER_IDS \subseteq RegionIds(regions)
            /\ RegionIds(regions) \subseteq MatchedIds(log[1].matched_locations)
            /\ \A i, j \in 1..Len(regions) :
                   i < j => FirstPosition(flat, regions[i].id)
                                < FirstPosition(flat, regions[j].id)

\* an id repeated under a second key, listed after an id first seen later
C10_Witness ==
    /\ pc = "generated"
    /\ log[1].matched_locations = << <<M_CB, M_CTX>>, <<M_grey, M_CB>> >>
    /\ Len(index.content[1].assets[1].regions) = 2
    /\ index.content[1].assets[1].regions[1].id = 512

-----------------------------------------------------------------------------
\* C11.  No record of an index, written by the synchronizer's rebuild or by the
\* standalone regeneration, has a region whose id is 8 or 997.
C11_NoExcludedRegion ==
    Built =>
        \A k \in 1..Len(index.content) : \A j \in 1..Len(index.content[k].assets) :
            \A r \in 1..Len(index.content[k].assets[j].regions) :
                index.content[k].assets[j].regions[r].id \notin {8, 997}

\* the canonical entry matched both excluded ids between two kept ones
C11_Witness ==
    /\ Built
    /\ log[1].matched_locations = << <<M_CTX, M_grey>>, <<M_root, M_CB>> >>
    /\ Len(index.content[1].assets[1].regions) = 2

\* C12.  In every index the dandisets are in ascending dandiset_id order and,
\* within each dandiset, the records are in ascending order of subject key.
C12_IndexIsOrdered ==
    Built =>
        /\ \A k, l \in 1..Len(index.content) :
               k < l => index.content[k].dandiset_id < index.content[l].dandiset_id
        /\ \A k \in 1..Len(index.content) :
               \A i, j \in 1..Len(index.content[k].assets) :
                   i < j => StrLess(extract_subject(index.content[k].assets[i].path),
                                    extract_subject(index.content[k].assets[j].path))

\* the log has subject "b" before subject "a" in one dandiset; the index has
\* "a" first
C12_Witness ==
    /\ Built
    /\ Len(log) = 2
    /\ log[1].dandiset_id = log[2].dandiset_id
    /\ StrLess(extract_subject(log[2].path), extract_subject(log[1].path))
    /\ Len(index.content[1].assets) = 2
    /\ index.content[1].assets[1].path = log[2].path

\* the log has dandiset 2 before dandiset 1; the index has 1 first
C12_WitnessDandisets ==
    /\ Built
    /\ Len(log) = 2
    /\ log[1].dandiset_id > log[2].dandiset_id
    /\ Len(index.content) = 2
    /\ index.content[1].dandiset_id = log[2].dandiset_id

\* the log without its blank lines
NonBlank(lines) == SelectSeq(lines, LAMBDA line : ~IsBlank(line))

\* C13, the synchronizer's part.  The table loaded from a log with blank lines,
\* and the index rebuilt from it, are those of the log without them.
C13_LoadIgnoresBlankLines ==
    (pc = "rebuilt" /\ \E i \in 1..Len(log) : IsBlank(log[i])) =>
        /\ label_cache = load_label_cache(NonBlank(log))
        /\ index.content = BuildIndex(load_label_cache(NonBlank(log)))

\* C13, whole.  Every reader of the log ignores blank lines: once either
\* script has run on a log with blank lines, the loaded table and the written
\* index are those of the log without them.
C13_BlankLinesIgnored ==
    (pc # "idle" /\ \E i \in 1..Len(log) : IsBlank(log[i])) =>
        /\ pc \in {"rebuilt", "generated"}
        /\ index.written
        /\ C13_LoadIgnoresBlankLines
        /\ pc = "generated" => index.content = GenerateIndex(NonBlank(log))

\* the listing a dandiset had in the run that ended, and in this run
PrevListingOf(did) ==
    {prev.listed[k].assets : k \in {j \in 1..Len(prev.listed) :
                                       prev.listed[j].ds = did /\ prev.listed[j].ok}}
ListingOf(did) ==
    {listed[k].assets : k \in {j \in 1..Len(listed) : listed[j].ds = did /\ listed[j].ok}}

\* the calls of the run that ended which failed
PrevFailedCalls == {c \in Range(prev.calls) : ~c.ok}

\* this run is through with dandiset did
Handled(did) ==
    \E k \in 1..Len(dandiset_ids) : dandiset_ids[k] = did /\ ds_i > k

\* C15, first part.  A subject whose labeling failed in the run that ended has
\* no entry in the table the next run loads.
C15_FailedSubjectStillMissing ==
    (prev.started /\ pc = "dandiset" /\ listed = << >>) =>
        \A c \in PrevFailedCalls :
            ~SubjectInCache(label_cache, c.ds, extract_subject(c.asset.path))

\* C15, first part as the gap check sees it.  In the table the next run loads,
\* no asset that the ended run's listing had for that subject is a key.
C15_GapCheckStillFails ==
    (prev.started /\ pc = "dandiset" /\ listed = << >>) =>
        \A c \in PrevFailedCalls : \A l \in PrevListingOf(c.ds) :
            ~have_cached(label_cache, c.ds,
                         SubjectAssets(l, extract_subject(c.asset.path)))

\* C15, second part.  Once the next run is through with the dandiset, under
\* the same listing, it has called the labeling routine for that subject
\* again, once, on the same asset.
C15_FailedSubjectIsCalledAgain ==
    prev.started =>
        \A c \in PrevFailedCalls :
            (Handled(c.ds) /\ ListingOf(c.ds) = PrevListingOf(c.ds)) =>
                /\ \E i \in 1..Len(calls) : calls[i].ds = c.ds /\ calls[i].asset = c.asset
                /\ \A i \in CallsFor(c.ds, extract_subject(c.asset.path)) :
                       calls[i].asset = c.asset
                /\ Cardinality(CallsFor(c.ds, extract_subject(c.asset.path))) = 1

\* C15, whole.  A subject whose labeling failed in one run is still missing at
\* the start of the next run against the same listing, and that run calls the
\* labeling routine for it again, on the same smallest-path asset.
C15_FailedSubjectIsRetried ==
    /\ C15_FailedSubjectStillMissing
    /\ C15_FailedSubjectIsCalledAgain

\* C16.  From the load on, the in-memory table is the table that
\* load_label_cache derives from the log as it is on disk: every appended
\* entry is in memory under the key of its own dandiset_id and asset_id, and
\* memory holds no key and no entry that the log does not give.
C16_MemoryEqualsLoadedLog ==
    pc # "start" =>
        /\ label_cache = load_label_cache(log)
        /\ \A i \in (Len(log0) + 1)..Len(log) :
               \E k \in 1..Len(label_cache) :
                   label_cache[k] = [key |-> EntryKey(log[i]), entry |-> log[i]]

\* a run that has appended two entries to a log that had one
C16_Witness ==
    /\ pc = "done"
    /\ Len(log0) = 1
    /\ Len(log) = 3
    /\ Len(label_cache) = 3

\* C17.  No step of a run deletes or overwrites an entry, on disk or in memory:
\* every line of the log and every entry of the table stays where it is with
\* the value it has.  A step appends one line to the log exactly when it is a
\* successful labeling call, and no step appends more than one.
C17_StepKeepsEntries ==
    /\ Len(log') >= Len(log)
    /\ SubSeq(log', 1, Len(log)) = log
    /\ Len(label_cache') >= Len(label_cache)
    /\ SubSeq(label_cache', 1, Len(label_cache)) = label_cache
    /\ Len(log') <= Len(log) + 1
    /\ Len(log') = Len(log) + 1 <=>
           (Len(calls') = Len(calls) + 1 /\ calls'[Len(calls')].ok)

C17_RunOnlyAppends == [][C17_StepKeepsEntries]_vars

\* a run on a log of two lines, with one successful and one failed call
C17_Witness ==
    /\ pc = "done"
    /\ Len(log0) = 2
    /\ Len(log) = 3
    /\ \E i, j \in 1..Len(calls) : calls[i].ok /\ ~calls[j].ok

\* the dandiset_ids of the lines of a log, and of the keys of a table
LogDandisets(lines) == {lines[i].dandiset_id : i \in 1..Len(lines)}
TableDandisets(cache) == {cache[i].key[1] : i \in 1..Len(cache)}

\* C18.  Every listing call and every labeling call of a run is for a
\* dandiset_id of the cache the run loaded; the dandiset_ids of the cache, in
\* the log and in the table, stay those of the start; and a run on an empty
\* cache makes no call and ends having written an index with no dandiset.
C18_OnlyKnownDandisets ==
    /\ \A i \in 1..Len(listed) : listed[i].ds \in LogDandisets(log0)
    /\ \A i \in 1..Len(calls) : calls[i].ds \in LogDandisets(log0)
    /\ LogDandisets(log) = LogDandisets(log0)
    /\ pc # "start" => TableDandisets(label_cache) = LogDandisets(log0)
    /\ log0 = << >> =>
           /\ listed = << >> /\ calls = << >> /\ log = << >>
           /\ pc \in {"start", "dandiset", "done"}
           /\ pc = "done" => index = [written |-> TRUE, content |-> << >>]

\* a finished run that found only dandiset 2 in the cache and added an entry
C18_Witness ==
    /\ pc = "done"
    /\ LogDandisets(log0) = {2}
    /\ Len(log) > Len(log0)
    /\ \E i \in 1..Len(calls) : calls[i].ok

\* a finished run that found an empty cache
C18_WitnessEmpty ==
    /\ pc = "done"
    /\ log0 = << >>
    /\ index.written

\* both processes have run main to its end
BothDone == pc = "done" /\ other.pc = "done"

\* the lister gave both processes the same listing of each dandiset
SameListings ==
    \A i, j \in 1..Len(listed) :
        listed[i].ds = listed[j].ds => listed[i].assets = listed[j].assets

\* C19 as stated.  After two interleaved runs against the same log and the
\* same listings, the index file is the index of the final log: the one built
\* from the table loaded from that log.
C19_InterleavedRunsLeaveIndexOfLog ==
    (BothDone /\ SameListings) =>
        index.content = BuildIndex(load_label_cache(log))

\* C19, amended.  After two interleaved runs, the log holds the lines it had
\* and one line per successful labeling call of either run, and the index
\* file is the index of the table of one of the two runs: the log as that run
\* loaded it plus that run's own entries.
C19_IndexIsOfOneRunsTable ==
    BothDone =>
        /\ SubSeq(log, 1, Len(log0)) = log0
        /\ Len(log) = Len(log0) + Len(SelectSeq(calls, LAMBDA c : c.ok))
        /\ index.written
        /\ index.content \in {BuildIndex(label_cache), BuildIndex(other.label_cache)}

\* both runs are done under the same listings, each has had a call fail where
\* the other's succeeded, and the index file is not the index of the log
C19_Witness ==
    /\ BothDone
    /\ SameListings
    /\ \E i, j \in 1..Len(calls) :
           calls[i].ok /\ ~calls[j].ok /\ calls[i].asset = calls[j].asset
    /\ index.content # BuildIndex(load_label_cache(log))

\* the fields of a cache entry
RequiredFields == {"dandiset_id", "asset_id", "path", "status", "matched_locations"}

\* the run has stopped in load, or not started, and has done nothing
StoppedAtLoad ==
    /\ pc \in {"start", "crashed"}
    /\ listed = << >>
    /\ calls = << >>
    /\ log = log0
    /\ index = NoIndex

\* C20, the part on what load reads.  If a non-blank line of the log is not
\* JSON, or has no dandiset_id or no asset_id, the run stops in load, before
\* any listing call, labeling call, log append or index write.
C20_UnreadableLineStopsRunAtLoad ==
    (\E i \in 1..Len(log0) :
        /\ ~IsBlank(log0[i])
        /\ \/ JsonFails(log0[i])
           \/ Lacks(log0[i], "dandiset_id")
           \/ Lacks(log0[i], "asset_id"))
    => StoppedAtLoad

\* C20, whole.  If a non-blank line of the log is not JSON or lacks a field of
\* a cache entry, the run stops in load, before any listing call, labeling
\* call, log append or index write, and leaves log and index as they were.
C20_BadLineStopsRunAtLoad ==
    (\E i \in 1..Len(log0) :
        /\ ~IsBlank(log0[i])
        /\ \/ JsonFails(log0[i])
           \/ \E f \in RequiredFields : Lacks(log0[i], f))
    => StoppedAtLoad

====
